---------------------------- MODULE Spec2Model ----------------------------
(***************************************************************************)
(* Model of detextify: the region geometry of utils.py (overlap, IoU,      *)
(* merge_nearby_boxes, multi_intersection_over_union) and the detect /     *)
(* in-paint loop of Detextifier.detextify.                                 *)
(***************************************************************************)
EXTENDS Integers, Sequences, FiniteSets, TLC

VARIABLES
    \* merge_nearby_boxes(boxes, max_distance)
    boxes, max_distance, curr_boxes, ref_idx, mpc, mret,
    \* Detextifier.detextify(in_image, prompt, max_retries)
    in_image, prompt, max_retries, out_image, i, text_boxes, dpc, dret,
    \* the calls made on the text detector and the inpainter, in order
    calls,
    \* intersection_over_union(box1, box2) and boxes_intersect(box1, box2)
    geo_box1, geo_box2, iou, intersects, called,
    \* multi_intersection_over_union(detected_boxes, gold_boxes)
    detected_boxes, gold_boxes, matched_golden_boxes, max_ious, db_idx, gb_idx,
    epc, eret

mvars == <<boxes, max_distance, curr_boxes, ref_idx, mpc, mret>>
dvars == <<in_image, prompt, max_retries, out_image, i, text_boxes, dpc, dret, calls>>
gvars == <<geo_box1, geo_box2, iou, intersects, called>>
evars == <<detected_boxes, gold_boxes, matched_golden_boxes, max_ious, db_idx,
           gb_idx, epc, eret>>
vars == <<mvars, dvars, gvars, evars>>

(***************************************************************************)
(* Bounds of the model.                                                    *)
(***************************************************************************)
MaxCoord == 2      \* boxes lie in an image of MaxCoord x MaxCoord pixels
MaxBoxes == 3      \* longest input sequence of merge_nearby_boxes
MaxDist == 2       \* largest max_distance
MaxRetries == 3    \* largest max_retries
MaxImage == 1      \* images are told apart by one pixel with a value 0..MaxImage
SmallCoord == 1    \* image size where sequences of boxes are enumerated twice
SmallBoxes == 2    \* longest sequence where sequences are enumerated twice

None == "None"     \* Python's None
\* the recognised text a detector attaches to its k-th box
LabelNames == <<"a", "b", "c", "d", "e", "f">>

\* Python's min and max of two numbers
Min2(a, b) == IF a <= b THEN a ELSE b
Max2(a, b) == IF a >= b THEN a ELSE b

(***************************************************************************)
(* utils.py: TextBox and the overlap functions.                            *)
(***************************************************************************)
TextBox(y, x, h, w, text) == [y |-> y, x |-> x, h |-> h, w |-> w, text |-> text]

\* every unlabelled TextBox with h >= 0, w >= 0 that lies inside a c x c image
TextBoxes(c) ==
    { TextBox(y, x, h, w, None) :
        y \in 0..c, x \in 0..c, h \in 0..c, w \in 0..c }

InImage(b, c) == b.y + b.h <= c /\ b.x + b.w <= c

ImageBoxes(c) == {b \in TextBoxes(c) : InImage(b, c)}

\* the boxes of s, the k-th one carrying the text LabelNames[k]
Labelled(s) == [k \in 1..Len(s) |-> [s[k] EXCEPT !.text = LabelNames[k]]]

overlap_y(box1, box2) ==
    Min2(box1.y + box1.h, box2.y + box2.h) - Max2(box1.y, box2.y)

overlap_x(box1, box2) ==
    Min2(box1.x + box1.w, box2.x + box2.w) - Max2(box1.x, box2.x)

boxes_intersect(box1, box2) ==
    overlap_x(box1, box2) > 0 /\ overlap_y(box1, box2) > 0

(***************************************************************************)
(* utils.py: merge_nearby_boxes and its nested functions.                  *)
(***************************************************************************)
should_merge(box1, box2) ==
    LET y_overlap == overlap_y(box1, box2)
        x_overlap == overlap_x(box1, box2)
    IN  \/ (x_overlap > 0 /\ -y_overlap < max_distance)
        \/ (y_overlap > 0 /\ -x_overlap < max_distance)

\* Python's min and max of a non-empty list of numbers, given as their set
ListMin(S) == CHOOSE m \in S : \A v \in S : m <= v
ListMax(S) == CHOOSE m \in S : \A v \in S : m >= v

merge_smallest_corner(bs) ==
    LET tl0 == ListMin({bs[k].y : k \in 1..Len(bs)})
        tl1 == ListMin({bs[k].x : k \in 1..Len(bs)})
        br0 == ListMin({bs[k].y + bs[k].h : k \in 1..Len(bs)})
        br1 == ListMin({bs[k].x + bs[k].w : k \in 1..Len(bs)})
    IN  TextBox(tl0, tl1, br0 - tl0, br1 - tl1, None)

\* the smallest enclosing rectangle; the text of the new TextBox defaults to None
merge(bs) ==
    LET tl0 == ListMin({bs[k].y : k \in 1..Len(bs)})
        tl1 == ListMin({bs[k].x : k \in 1..Len(bs)})
        br0 == ListMax({bs[k].y + bs[k].h : k \in 1..Len(bs)})
        br1 == ListMax({bs[k].x + bs[k].w : k \in 1..Len(bs)})
    IN  TextBox(tl0, tl1, br0 - tl0, br1 - tl1, None)

\* itertools.compress(data, selectors)
compress(data, selectors) ==
    LET F[k \in 0..Len(data)] ==
            IF k = 0 THEN << >>
            ELSE IF selectors[k] THEN Append(F[k - 1], data[k]) ELSE F[k - 1]
    IN  F[Len(data)]

merge_with_box(ref_box, other_boxes) ==
    LET should_merge_with_ref ==
            [k \in 1..Len(other_boxes) |-> should_merge(ref_box, other_boxes[k])]
        should_keep ==
            [k \in 1..Len(other_boxes) |-> ~should_merge_with_ref[k]]
        to_merge == compress(other_boxes, should_merge_with_ref)
        to_keep == compress(other_boxes, should_keep)
    IN  IF \A k \in 1..Len(other_boxes) : ~should_merge_with_ref[k]
        THEN <<ref_box>> \o other_boxes
        ELSE <<merge(<<ref_box>> \o to_merge)>> \o to_keep

\* the working sequence is allowed to reach this length before the model stops
MaxWork == MaxBoxes + 2

BoundedSeqs(S, n) == UNION { [1..k -> S] : k \in 0..n }

\* the call merge_nearby_boxes(boxes, max_distance): at most n boxes inside a
\* c x c image, without text or (when `texts`) each with its text, and
\* 0 <= max_distance <= d
MergeCall(n, c, d, texts) ==
    /\ \E s \in BoundedSeqs(ImageBoxes(c), n) :
          boxes \in IF texts THEN {s, Labelled(s)} ELSE {s}
    /\ max_distance \in 0..d
    /\ curr_boxes = << >>
    /\ ref_idx = 0
    /\ mpc = "call"
    /\ mret = << >>

(***************************************************************************)
(* utils.py: intersection over union.  A Python float quotient n / d is    *)
(* kept as the pair <<n, d>>; two quotients are the same float exactly     *)
(* when they are the same rational (the integers here are small).          *)
(***************************************************************************)
FloatEq(p, q) == p[1] * q[2] = q[1] * p[2]
FloatLeq(p, q) == p[1] * q[2] <= q[1] * p[2]
FloatZero == <<0, 1>>

intersection_over_union_exclusive(b1, b2) ==
    LET ya == Max2(b1.y, b2.y)
        xa == Max2(b1.x, b2.x)
        yb == Min2(b1.y + b1.h, b2.y + b2.h)
        xb == Min2(b1.x + b1.w, b2.x + b2.w)
        intersection_area == Max2(0, xb - xa) * Max2(0, yb - ya)
        box1_area == (b1.h + 1) * (b1.w + 1)
        box2_area == (b2.h + 1) * (b2.w + 1)
    IN  <<intersection_area, box1_area + box2_area - intersection_area>>

intersection_over_union(b1, b2) ==
    LET ya == Max2(b1.y, b2.y)
        xa == Max2(b1.x, b2.x)
        yb == Min2(b1.y + b1.h, b2.y + b2.h)
        xb == Min2(b1.x + b1.w, b2.x + b2.w)
        intersection_area == Max2(0, xb - xa + 1) * Max2(0, yb - ya + 1)
        box1_area == (b1.h + 1) * (b1.w + 1)
        box2_area == (b2.h + 1) * (b2.w + 1)
    IN  <<intersection_area, box1_area + box2_area - intersection_area>>

\* max(ious) of a non-empty list of floats
FloatMax(s) == LET k == CHOOSE k \in 1..Len(s) : \A m \in 1..Len(s) : FloatLeq(s[m], s[k])
               IN  s[k]

\* np.mean(values): the sum over the count; <<0, 0>> (nan) for an empty list
FloatMean(s) ==
    LET Den[k \in 0..Len(s)] == IF k = 0 THEN 1 ELSE Den[k - 1] * s[k][2]
        Num[k \in 0..Len(s)] ==
            IF k = 0 THEN 0 ELSE Num[k - 1] * s[k][2] + s[k][1] * Den[k - 1]
    IN  <<Num[Len(s)], Den[Len(s)] * Len(s)>>


\* no call of merge_nearby_boxes is under way
MergeIdle ==
    /\ boxes = << >>
    /\ max_distance = 0
    /\ curr_boxes = << >>
    /\ ref_idx = 0
    /\ mpc = "idle"
    /\ mret = << >>

\* lines 110-111: 0 or 1 boxes are returned as they are
MergeEarlyReturn ==
    /\ mpc = "call"
    /\ Len(boxes) <= 1
    /\ mret' = boxes
    /\ mpc' = "done"
    /\ UNCHANGED <<boxes, max_distance, curr_boxes, ref_idx>>
    /\ UNCHANGED <<dvars, gvars, evars>>

\* lines 142-143
MergeStart ==
    /\ mpc = "call"
    /\ Len(boxes) > 1
    /\ curr_boxes' = boxes
    /\ ref_idx' = 0
    /\ mpc' = "loop"
    /\ UNCHANGED <<boxes, max_distance, mret>>
    /\ UNCHANGED <<dvars, gvars, evars>>

\* lines 144-150: one pass of the while loop
MergePass ==
    /\ mpc = "loop"
    /\ ref_idx < Len(curr_boxes) - 1
    /\ Len(curr_boxes) < MaxWork
    /\ LET before == SubSeq(curr_boxes, 1, ref_idx)
           after == merge_with_box(curr_boxes[ref_idx + 1],
                                   SubSeq(curr_boxes, ref_idx + 1, Len(curr_boxes)))
       IN  /\ ref_idx' = IF Len(before) + Len(after) = Len(curr_boxes)
                         THEN ref_idx + 1 ELSE ref_idx
           /\ curr_boxes' = before \o after
    /\ UNCHANGED <<boxes, max_distance, mpc, mret>>
    /\ UNCHANGED <<dvars, gvars, evars>>

\* line 152
MergeReturn ==
    /\ mpc = "loop"
    /\ ~(ref_idx < Len(curr_boxes) - 1)
    /\ mret' = curr_boxes
    /\ mpc' = "done"
    /\ UNCHANGED <<boxes, max_distance, curr_boxes, ref_idx>>
    /\ UNCHANGED <<dvars, gvars, evars>>

(***************************************************************************)
(* utils.py: the calls intersection_over_union(box1, box2) and             *)
(* boxes_intersect(box1, box2) on one pair of boxes.                       *)
(***************************************************************************)
GeometryIdle ==
    /\ geo_box1 = TextBox(0, 0, 0, 0, None)
    /\ geo_box2 = TextBox(0, 0, 0, 0, None)
    /\ iou = FloatZero
    /\ intersects = FALSE
    /\ called = {}

GeometryCall(c) ==
    /\ geo_box1 \in ImageBoxes(c)
    /\ geo_box2 \in ImageBoxes(c)
    /\ iou = FloatZero
    /\ intersects = FALSE
    /\ called = {}

CallIntersectionOverUnion ==
    /\ "intersection_over_union" \notin called
    /\ iou' = intersection_over_union(geo_box1, geo_box2)
    /\ called' = called \cup {"intersection_over_union"}
    /\ UNCHANGED <<geo_box1, geo_box2, intersects>>
    /\ UNCHANGED <<mvars, dvars, evars>>

CallBoxesIntersect ==
    /\ "boxes_intersect" \notin called
    /\ intersects' = boxes_intersect(geo_box1, geo_box2)
    /\ called' = called \cup {"boxes_intersect"}
    /\ UNCHANGED <<geo_box1, geo_box2, iou>>
    /\ UNCHANGED <<mvars, dvars, evars>>

(***************************************************************************)
(* utils.py: multi_intersection_over_union.                                *)
(***************************************************************************)
EvaluateIdle ==
    /\ detected_boxes = << >>
    /\ gold_boxes = << >>
    /\ matched_golden_boxes = {}
    /\ max_ious = << >>
    /\ db_idx = 0
    /\ gb_idx = 0
    /\ epc = "idle"
    /\ eret = FloatZero

\* the call multi_intersection_over_union(detected_boxes, gold_boxes) and its
\* lines 78-79; gold indices are kept 0-based as enumerate gives them
EvaluateCall(n, c) ==
    /\ detected_boxes \in BoundedSeqs(ImageBoxes(c), n)
    /\ gold_boxes \in BoundedSeqs(ImageBoxes(c), n)
    /\ matched_golden_boxes = {}
    /\ max_ious = << >>
    /\ db_idx = 0
    /\ gb_idx = 0
    /\ epc = "detected"
    /\ eret = FloatZero

\* lines 80-86: one detected box, with a gold box to compare it to
ForDetectedBox ==
    /\ epc = "detected"
    /\ db_idx < Len(detected_boxes)
    /\ Len(gold_boxes) > 0
    /\ LET db == detected_boxes[db_idx + 1]
           ious == [k \in 1..Len(gold_boxes) |->
                       intersection_over_union(db, gold_boxes[k])]
           max_iou == FloatMax(ious)
       IN  /\ max_ious' = Append(max_ious, max_iou)
           /\ matched_golden_boxes' = matched_golden_boxes \cup
                  {k - 1 : k \in {m \in 1..Len(gold_boxes) : FloatEq(ious[m], max_iou)}}
    /\ db_idx' = db_idx + 1
    /\ UNCHANGED <<detected_boxes, gold_boxes, gb_idx, epc, eret>>
    /\ UNCHANGED <<mvars, dvars, gvars>>

\* line 82: max() of an empty list raises ValueError
ForDetectedBoxRaises ==
    /\ epc = "detected"
    /\ db_idx < Len(detected_boxes)
    /\ Len(gold_boxes) = 0
    /\ epc' = "raised"
    /\ UNCHANGED <<detected_boxes, gold_boxes, matched_golden_boxes, max_ious,
                   db_idx, gb_idx, eret>>
    /\ UNCHANGED <<mvars, dvars, gvars>>

\* line 80: the detected boxes are exhausted
ForDetectedDone ==
    /\ epc = "detected"
    /\ db_idx = Len(detected_boxes)
    /\ epc' = "gold"
    /\ UNCHANGED <<detected_boxes, gold_boxes, matched_golden_boxes, max_ious,
                   db_idx, gb_idx, eret>>
    /\ UNCHANGED <<mvars, dvars, gvars>>

\* lines 89-91: one gold index
ForGoldIndex ==
    /\ epc = "gold"
    /\ gb_idx < Len(gold_boxes)
    /\ max_ious' = IF gb_idx \notin matched_golden_boxes
                   THEN Append(max_ious, FloatZero) ELSE max_ious
    /\ gb_idx' = gb_idx + 1
    /\ UNCHANGED <<detected_boxes, gold_boxes, matched_golden_boxes, db_idx, epc, eret>>
    /\ UNCHANGED <<mvars, dvars, gvars>>

\* line 93: return np.mean(max_ious)
ReturnMean ==
    /\ epc = "gold"
    /\ gb_idx = Len(gold_boxes)
    /\ eret' = FloatMean(max_ious)
    /\ epc' = "returned"
    /\ UNCHANGED <<detected_boxes, gold_boxes, matched_golden_boxes, max_ious,
                   db_idx, gb_idx>>
    /\ UNCHANGED <<mvars, dvars, gvars>>

(***************************************************************************)
(* detextifier.py: Detextifier.detextify.  The text detector and the       *)
(* inpainter are the caller's objects: a call of either returns any value  *)
(* of its result type, or raises.  An image is its sequence of pixels.     *)
(***************************************************************************)
Images == { <<v>> : v \in 0..MaxImage }
NoImage == << >>
Prompts == {"default", "custom"}

\* what detect_text may return: an empty list, or a list with boxes in it
Detections ==
    { << >>,
      <<TextBox(0, 0, 1, 1, "a")>>,
      <<TextBox(0, 0, 1, 1, "a"), TextBox(1, 1, 1, 1, "b")>> }

\* a call that raised has no result
DetectCall(image, raised, result) ==
    [op |-> "detect_text", image |-> image, raised |-> raised, result |-> result]

InpaintCall(image, tbs, p, raised, result) ==
    [op |-> "inpaint", image |-> image, text_boxes |-> tbs, prompt |-> p,
     raised |-> raised, result |-> result]

\* range(max_retries) has max_retries elements, none when max_retries <= 0
RangeLen(n) == IF n > 0 THEN n ELSE 0

range_has_next_off_by_one(last, n) == last + 1 <= RangeLen(n)

\* line 12: whether range(n) has an element after `last` (-1: none taken yet)
range_has_next(last, n) == last + 1 < RangeLen(n)

\* no call of detextify is under way
DetextifyIdle ==
    /\ in_image = NoImage
    /\ prompt = "default"
    /\ max_retries = 0
    /\ out_image = NoImage
    /\ i = -1
    /\ text_boxes = << >>
    /\ dpc = "idle"
    /\ dret = NoImage
    /\ calls = << >>

\* the call detextify(in_image, prompt, max_retries)
DetextifyCall ==
    /\ in_image \in Images
    /\ prompt \in Prompts
    /\ max_retries \in 0..MaxRetries
    /\ out_image = NoImage
    /\ i = -1
    /\ text_boxes = << >>
    /\ dpc = "copy"
    /\ dret = NoImage
    /\ calls = << >>

\* line 11: out_image = in_image.copy()
CopyImage ==
    /\ dpc = "copy"
    /\ out_image' = in_image
    /\ dpc' = "for"
    /\ UNCHANGED <<in_image, prompt, max_retries, i, text_boxes, dret, calls>>
    /\ UNCHANGED <<mvars, gvars, evars>>

\* line 12: the next element of range(max_retries), when there is one
ForNext ==
    /\ dpc = "for"
    /\ range_has_next(i, max_retries)
    /\ i' = i + 1
    /\ dpc' = "detect"
    /\ UNCHANGED <<in_image, prompt, max_retries, out_image, text_boxes, dret, calls>>
    /\ UNCHANGED <<mvars, gvars, evars>>

\* line 12: range(max_retries) is exhausted
ForExhausted ==
    /\ dpc = "for"
    /\ ~range_has_next(i, max_retries)
    /\ dpc' = "return"
    /\ UNCHANGED <<in_image, prompt, max_retries, out_image, i, text_boxes, dret, calls>>
    /\ UNCHANGED <<mvars, gvars, evars>>

\* line 16: text_boxes = self.text_detector.detect_text(out_image)
DetectReturns ==
    /\ dpc = "detect"
    /\ \E r \in Detections :
          /\ text_boxes' = r
          /\ calls' = Append(calls, DetectCall(out_image, FALSE, r))
    /\ dpc' = "test"
    /\ UNCHANGED <<in_image, prompt, max_retries, out_image, i, dret>>
    /\ UNCHANGED <<mvars, gvars, evars>>

\* line 16: detect_text raises; nothing in detextify catches it
DetectRaises ==
    /\ dpc = "detect"
    /\ calls' = Append(calls, DetectCall(out_image, TRUE, << >>))
    /\ dpc' = "raised"
    /\ UNCHANGED <<in_image, prompt, max_retries, out_image, i, text_boxes, dret>>
    /\ UNCHANGED <<mvars, gvars, evars>>

TestBreak_keeps_going ==
    /\ dpc = "test"
    /\ text_boxes = << >>
    /\ dpc' = "inpaint"
    /\ UNCHANGED <<in_image, prompt, max_retries, out_image, i, text_boxes, dret, calls>>
    /\ UNCHANGED <<mvars, gvars, evars>>

\* lines 19-20: if not text_boxes: break
TestBreak ==
    /\ dpc = "test"
    /\ text_boxes = << >>
    /\ dpc' = "return"
    /\ UNCHANGED <<in_image, prompt, max_retries, out_image, i, text_boxes, dret, calls>>
    /\ UNCHANGED <<mvars, gvars, evars>>

\* line 19: text_boxes is not empty
TestContinue ==
    /\ dpc = "test"
    /\ text_boxes # << >>
    /\ dpc' = "inpaint"
    /\ UNCHANGED <<in_image, prompt, max_retries, out_image, i, text_boxes, dret, calls>>
    /\ UNCHANGED <<mvars, gvars, evars>>

InpaintReturns_input_image ==
    /\ dpc = "inpaint"
    /\ \E img \in Images :
          /\ out_image' = img
          /\ calls' = Append(calls, InpaintCall(in_image, text_boxes, prompt, FALSE, img))
    /\ dpc' = "for"
    /\ UNCHANGED <<in_image, prompt, max_retries, i, text_boxes, dret>>
    /\ UNCHANGED <<mvars, gvars, evars>>

\* line 23: out_image = self.inpainter.inpaint(out_image, text_boxes, prompt)
InpaintReturns ==
    /\ dpc = "inpaint"
    /\ \E img \in Images :
          /\ out_image' = img
          /\ calls' = Append(calls, InpaintCall(out_image, text_boxes, prompt, FALSE, img))
    /\ dpc' = "for"
    /\ UNCHANGED <<in_image, prompt, max_retries, i, text_boxes, dret>>
    /\ UNCHANGED <<mvars, gvars, evars>>

InpaintRaises_swallowed ==
    /\ dpc = "inpaint"
    /\ calls' = Append(calls, InpaintCall(out_image, text_boxes, prompt, TRUE, NoImage))
    /\ dpc' = "for"
    /\ UNCHANGED <<in_image, prompt, max_retries, out_image, i, text_boxes, dret>>
    /\ UNCHANGED <<mvars, gvars, evars>>

\* line 23: inpaint raises; nothing in detextify catches it
InpaintRaises ==
    /\ dpc = "inpaint"
    /\ calls' = Append(calls, InpaintCall(out_image, text_boxes, prompt, TRUE, NoImage))
    /\ dpc' = "raised"
    /\ UNCHANGED <<in_image, prompt, max_retries, out_image, i, text_boxes, dret>>
    /\ UNCHANGED <<mvars, gvars, evars>>

\* line 25: return out_image
ReturnImage ==
    /\ dpc = "return"
    /\ dret' = out_image
    /\ dpc' = "returned"
    /\ UNCHANGED <<in_image, prompt, max_retries, out_image, i, text_boxes, calls>>
    /\ UNCHANGED <<mvars, gvars, evars>>

(***************************************************************************)
(* Specifications: one per function under study.                           *)
(***************************************************************************)
NextMerge == MergeEarlyReturn \/ MergeStart \/ MergePass \/ MergeReturn

InitMerge ==
    MergeCall(MaxBoxes, MaxCoord, MaxDist, TRUE) /\ DetextifyIdle /\ GeometryIdle /\ EvaluateIdle

InitMergeSmall ==
    MergeCall(SmallBoxes, SmallCoord, MaxDist, FALSE) /\ DetextifyIdle /\ GeometryIdle
        /\ EvaluateIdle

SpecMerge == InitMerge /\ [][NextMerge]_vars

SpecMergeSmall == InitMergeSmall /\ [][NextMerge]_vars

NextDetextify ==
    \/ CopyImage
    \/ ForNext
    \/ ForExhausted
    \/ DetectReturns
    \/ DetectRaises
    \/ TestBreak
    \/ TestContinue
    \/ InpaintReturns
    \/ InpaintRaises
    \/ ReturnImage

InitDetextify == DetextifyCall /\ MergeIdle /\ GeometryIdle /\ EvaluateIdle

\* detextify is sequential code: while a statement is left to run, it runs
SpecDetextify == InitDetextify /\ [][NextDetextify]_vars /\ WF_vars(NextDetextify)

NextGeometry == CallIntersectionOverUnion \/ CallBoxesIntersect

InitGeometry == GeometryCall(MaxCoord) /\ MergeIdle /\ DetextifyIdle /\ EvaluateIdle

SpecGeometry == InitGeometry /\ [][NextGeometry]_vars

NextEvaluate ==
    \/ ForDetectedBox
    \/ ForDetectedBoxRaises
    \/ ForDetectedDone
    \/ ForGoldIndex
    \/ ReturnMean

InitEvaluate ==
    EvaluateCall(SmallBoxes, SmallCoord) /\ MergeIdle /\ DetextifyIdle /\ GeometryIdle

SpecEvaluate == InitEvaluate /\ [][NextEvaluate]_vars

(***************************************************************************)
(* Properties of merge_nearby_boxes.                                       *)
(***************************************************************************)
Contains(outer, inner) ==
    /\ outer.y <= inner.y
    /\ outer.x <= inner.x
    /\ inner.y + inner.h <= outer.y + outer.h
    /\ inner.x + inner.w <= outer.x + outer.w

\* the smallest rectangle enclosing the boxes of s, as <<top, left, bottom, right>>
Enclosing(s) ==
    <<ListMin({s[k].y : k \in 1..Len(s)}),
      ListMin({s[k].x : k \in 1..Len(s)}),
      ListMax({s[k].y + s[k].h : k \in 1..Len(s)}),
      ListMax({s[k].x + s[k].w : k \in 1..Len(s)})>>

\* the sequence the function is working on, or has returned
Working == IF mpc = "done" THEN mret ELSE curr_boxes

\* C1: every pass of the while loop either shortens the working sequence or
\* advances the reference index, and the working sequence never grows; this
\* is what makes merge_nearby_boxes terminate on every input.
C1_PassShortensOrAdvances ==
    [][(mpc = "loop" /\ mpc' = "loop") =>
          /\ Len(curr_boxes') <= Len(curr_boxes)
          /\ (Len(curr_boxes') < Len(curr_boxes) \/ ref_idx' = ref_idx + 1)]_vars

\* C5: the returned sequence is a fixed point of the merge predicate: no two
\* regions at distinct positions of it satisfy should_merge.
C5_ReturnsFixedPoint ==
    mpc = "done" =>
        \A m, n \in 1..Len(mret) : m # n => ~should_merge(mret[m], mret[n])

\* C6: two regions with the same vertical extent (a real overlap, h > 0) and a
\* horizontal gap g < max_distance come back as one region, their smallest
\* enclosing rectangle; two regions with a horizontal gap g >= max_distance
\* and no vertical overlap come back unchanged, labels included.
C6_PairMergedOrUnchanged ==
    (mpc = "done" /\ Len(boxes) = 2) =>
        LET a == boxes[1]
            b == boxes[2]
            g == -overlap_x(a, b)
            e == Enclosing(boxes)
        IN  /\ (a.y = b.y /\ a.h = b.h /\ a.h > 0 /\ g >= 0 /\ g < max_distance)
                => mret = <<TextBox(e[1], e[2], e[3] - e[1], e[4] - e[2], None)>>
            /\ (g >= 0 /\ g >= max_distance /\ overlap_y(a, b) <= 0)
                => mret = <<a, b>>

\* C10 (coverage): after every pass, and in the returned sequence, every input
\* region is contained in a region of the working sequence, and the working
\* sequence has the same smallest enclosing rectangle as the input.
C10_Covered ==
    (mpc \in {"loop", "done"} /\ Len(boxes) > 0) =>
        /\ \A k \in 1..Len(boxes) :
              \E m \in 1..Len(Working) : Contains(Working[m], boxes[k])
        /\ Len(Working) > 0
        /\ Enclosing(Working) = Enclosing(boxes)

\* C10: the coverage invariant above holds in every state, and no step of
\* merge_nearby_boxes changes the input sequence.
C10_CoverageInvariant == []C10_Covered /\ [][boxes' = boxes]_vars

\* C10 witness: two input regions have been merged into one region that is
\* neither of them, and it has been returned.
C10_Witness ==
    /\ mpc = "done"
    /\ Len(boxes) = 2
    /\ Len(mret) = 1
    /\ mret[1].w > boxes[1].w
    /\ mret[1].w > boxes[2].w

(***************************************************************************)
(* Properties of Detextifier.detextify.                                    *)
(***************************************************************************)
IsDetect(c) == c.op = "detect_text"
IsInpaint(c) == c.op = "inpaint"
NumDetect == Cardinality({k \in 1..Len(calls) : IsDetect(calls[k])})
NumInpaint == Cardinality({k \in 1..Len(calls) : IsInpaint(calls[k])})
Terminated == dpc \in {"returned", "raised"}

\* a detect_text call that returned an empty list
EmptyDetection(c) == IsDetect(c) /\ ~c.raised /\ c.result = << >>

\* every detect_text call so far returned a non-empty list
DetectorAlwaysFinds ==
    \A k \in 1..Len(calls) :
        IsDetect(calls[k]) => (~calls[k].raised /\ calls[k].result # << >>)

\* C2 (on return): exactly max_retries calls of each kind were made and the
\* last inpaint result is returned.
C2_BudgetInv ==
    (dpc = "returned" /\ DetectorAlwaysFinds) =>
        /\ NumDetect = max_retries
        /\ NumInpaint = max_retries
        /\ dret = IF max_retries = 0 THEN in_image ELSE calls[Len(calls)].result
        /\ max_retries > 0 => IsInpaint(calls[Len(calls)])

\* C2: with max_retries = N >= 0 and a detector that finds regions on every
\* call, detextify ends, and when it returns it has made exactly N
\* detect_text and N inpaint calls and returns the last inpaint result (the
\* copy of the input when N = 0).
C2_ExactBudget == <>Terminated /\ []C2_BudgetInv

\* C2 witness: a return after the budget of at least two rounds was used up.
C2_Witness ==
    /\ dpc = "returned"
    /\ DetectorAlwaysFinds
    /\ max_retries >= 2
    /\ Len(calls) = 2 * max_retries
    /\ dret # in_image

\* C3 (in every state): an empty detection is the last call made, and the
\* image returned after it is the image it was given.
C3_StopInv ==
    /\ \A k \in 1..Len(calls) :
          EmptyDetection(calls[k]) =>
              (k = Len(calls) /\ dpc \in {"test", "return", "returned"})
    /\ (dpc = "returned" /\ Len(calls) > 0 /\ EmptyDetection(calls[Len(calls)]))
          => dret = calls[Len(calls)].image
    /\ (dpc = "returned" /\ Len(calls) > 0 /\ EmptyDetection(calls[1]))
          => (NumDetect = 1 /\ NumInpaint = 0 /\ dret = in_image)

\* C3: the first empty detection result ends the loop: no further detect_text
\* or inpaint call is made, detextify returns, and it returns the image that
\* detect_text call was given (the input image when it was the first call,
\* after one detect_text and no inpaint call).
C3_EmptyDetectionStops ==
    /\ []C3_StopInv
    /\ ((Len(calls) > 0 /\ EmptyDetection(calls[Len(calls)])) ~> dpc = "returned")

\* C3 witness: the second detect_text call found nothing and detextify has
\* returned the image the first inpaint call produced.
C3_Witness ==
    /\ dpc = "returned"
    /\ Len(calls) = 3
    /\ EmptyDetection(calls[3])
    /\ dret # in_image

\* C4: a detect_text or inpaint call that raises is the last call made, no
\* image is returned and detextify does nothing after it; an inpainter that
\* raises on its first call leaves exactly 1 detect_text and 1 inpaint call.
C4_FailurePropagates ==
    /\ \A k \in 1..Len(calls) :
          calls[k].raised => (k = Len(calls) /\ dpc = "raised" /\ dret = NoImage)
    /\ dpc = "raised" => (Len(calls) > 0 /\ calls[Len(calls)].raised)
    /\ (Len(calls) >= 2 /\ calls[2].raised) => (NumDetect = 1 /\ NumInpaint = 1)

\* C4 witness: the inpainter raised on its second call.
C4_Witness ==
    /\ dpc = "raised"
    /\ Len(calls) = 4
    /\ IsInpaint(calls[4])
    /\ calls[4].raised

\* C9: the calls alternate detect_text, inpaint, detect_text, ... ; an inpaint
\* call gets the image and the result of the detect_text call before it and
\* the caller's prompt; a detect_text call gets the result of the inpaint call
\* before it (the first one the input image); there are as many inpaint calls
\* as detect_text calls or one less, and at most max_retries detect_text calls.
C9_CallsAlternate ==
    /\ \A k \in 1..Len(calls) :
          IF k % 2 = 1
          THEN /\ IsDetect(calls[k])
               /\ calls[k].image = IF k = 1 THEN in_image ELSE calls[k - 1].result
          ELSE /\ IsInpaint(calls[k])
               /\ calls[k].image = calls[k - 1].image
               /\ calls[k].text_boxes = calls[k - 1].result
               /\ calls[k].prompt = prompt
    /\ NumInpaint \in {NumDetect, NumDetect - 1}
    /\ NumDetect <= max_retries

\* C9 witness: a second round whose image is not the input image.
C9_Witness ==
    /\ Len(calls) = 4
    /\ ~calls[4].raised
    /\ calls[3].image # in_image
    /\ prompt = "custom"

(***************************************************************************)
(* Properties of intersection_over_union and boxes_intersect.              *)
(***************************************************************************)
BothCalled == called = {"intersection_over_union", "boxes_intersect"}
ZeroOverlap == overlap_x(geo_box1, geo_box2) = 0 /\ overlap_y(geo_box1, geo_box2) = 0
Area(b) == (b.h + 1) * (b.w + 1)

\* C7 as stated: two regions with zero overlap on both axes do not intersect
\* and have an inclusive intersection area, and so an IoU, of 0.
C7_ZeroOverlapZeroIoU ==
    (BothCalled /\ ZeroOverlap) => (intersects = FALSE /\ FloatEq(iou, FloatZero))

\* C7 amended: two regions with zero overlap on both axes do not intersect,
\* but their inclusive intersection area is 1 and their IoU is
\* 1 / (area(a) + area(b) - 1); the IoU is 0.0 exactly when the overlap on
\* some axis is negative.
C7_ZeroOverlapOnePixel ==
    BothCalled =>
        /\ ZeroOverlap =>
              /\ intersects = FALSE
              /\ iou = <<1, Area(geo_box1) + Area(geo_box2) - 1>>
        /\ FloatEq(iou, FloatZero) <=>
              (overlap_x(geo_box1, geo_box2) < 0 \/ overlap_y(geo_box1, geo_box2) < 0)

\* C7 witness: two regions of positive area that touch in one corner.
C7_Witness ==
    /\ BothCalled
    /\ ZeroOverlap
    /\ geo_box1.h > 0 /\ geo_box1.w > 0 /\ geo_box2.h > 0 /\ geo_box2.w > 0

(***************************************************************************)
(* Properties of multi_intersection_over_union.                            *)
(***************************************************************************)
\* the gold boxes that intersect none of the detected boxes
GoldWithoutDetection ==
    {g \in 1..Len(gold_boxes) :
        \A d \in 1..Len(detected_boxes) :
            ~boxes_intersect(detected_boxes[d], gold_boxes[g])}

\* C8: with both sequences non-empty, every gold box that intersects none of
\* the detected boxes adds one 0.0 term after the detected boxes' terms, so at
\* least len(detected) + (number of such gold boxes) terms are averaged.
C8_UnmatchedGoldPenalised ==
    (epc = "returned" /\ Len(detected_boxes) > 0 /\ Len(gold_boxes) > 0) =>
        /\ Len(max_ious) >= Len(detected_boxes) + Cardinality(GoldWithoutDetection)
        /\ \A g \in GoldWithoutDetection : (g - 1) \notin matched_golden_boxes

=============================================================================
